---- MODULE Spec2Model ----
(***************************************************************************)
(* A model of hogdump-rs: the HOG archive writer (create / append_file),   *)
(* the reader and its record cursor (open / records / next /               *)
(* copy_cur_file) of src/hog.rs, the byte copiers of src/util.rs and the   *)
(* extract / list drivers (hog_dump, hog_info) of src/main.rs.             *)
(*                                                                         *)
(* A byte is a number in 0..255; a file, a file name and a stream are      *)
(* sequences of bytes.  The archive file is the variable archive; a        *)
(* reader's stream is (archive, pos).                                      *)
(***************************************************************************)
EXTENDS Integers, Sequences, FiniteSets, TLC

VARIABLES
  archive,      \* the bytes of the HOG file on disk
  origin,       \* "input": a file found on disk; "created": written by create/append_file
  writer,       \* a HogFileWriter is open on the archive
  appended,     \* history: the sources append_file has accepted since create
  reader,       \* a HogFileReader is open on the archive
  pos,          \* the reader's stream position
  cursor,       \* "none" | "live" | "panicked": the HogRecordIter borrowed from the reader
  cur_file_len, \* Option<u64>: <<>> is None, <<n>> is Some(n)
  hit_error,    \* HogRecordIter::hit_error
  gen,          \* history: how many cursors records() has handed out on this reader
  yielded,      \* history: what the current cursor's next() calls returned, in order
  last,         \* the outcome of the most recent library call
  pc,           \* driver position: "idle" | "dump" | "info" | "done"
  overwrite,    \* hog_dump's overwrite flag
  info,         \* HogExtractInfo / HogInfoSummary being accumulated
  result,       \* what the driver returned: "none" | "Ok" | the HogError's name
  disk,         \* the extraction directory: name -> content, for the files that exist
  hist,         \* history of the driver runs on this archive
  files,        \* the archive paths on the command line, as the files they name
  io            \* a call of a byte-level function: its arguments and what it gave

vars == <<archive, origin, writer, appended, reader, pos, cursor, cur_file_len,
          hit_error, gen, yielded, last, pc, overwrite, info, result, disk, hist,
          files, io>>

libVars == <<archive, origin, writer, appended, reader, pos, cursor, cur_file_len,
             hit_error, gen, yielded, last>>
drvVars == <<pc, overwrite, info, result, disk, hist>>
auxVars == <<files, io>>

(***************************************************************************)
(* Program constants.                                                      *)
(***************************************************************************)
HOG_SIGNATURE == <<68, 72, 70>>          \* b"DHF"
NAME_LEN == 13                           \* RawHogRecord::filename: [u8; 13]
LEN_LEN == 4                             \* RawHogRecord::length: u32
HDR_LEN == NAME_LEN + LEN_LEN            \* size_of::<RawHogRecord>(), packed
SIG_LEN == Len(HOG_SIGNATURE)
U32_MAX == <<255, 255, 255, 255, 0, 0, 0, 0>>   \* u32::MAX.into(), as a u64
BUF_LEN == 4096                          \* copy_n's buffer

(***************************************************************************)
(* Bounds of the model.                                                    *)
(***************************************************************************)
MaxData == 3        \* longest payload of a source file / an input record
MaxNameLen == 13    \* longest final path component of a source file
MaxAppends == 2     \* append_file calls accepted per created archive
MaxInputRecs == 2   \* records in an input archive (before truncation)
MaxCursors == 2     \* cursors handed out per open reader
MaxRuns == 2        \* driver runs per archive
MaxEvents == 2      \* scheduled read events of a byte-level call
MaxFiles == 2       \* archive paths on one command line
MaxCalls == 2       \* the count of a cursor's next() calls starts again at this

Min(a, b) == IF a < b THEN a ELSE b
Rep(b, n) == [i \in 1..n |-> b]
Drop(s, n) == IF n >= Len(s) THEN <<>> ELSE SubSeq(s, n + 1, Len(s))
Take(s, n) == IF n >= Len(s) THEN s ELSE SubSeq(s, 1, n)

RECURSIVE SumLen(_)
SumLen(recs) ==
  IF recs = <<>> THEN 0 ELSE HDR_LEN + Head(recs).length + SumLen(Tail(recs))

(***************************************************************************)
(* UTF-8, as std::str::from_utf8 and String::from_utf8_lossy see it.       *)
(***************************************************************************)
IsCont(b) == b >= 128 /\ b <= 191

\* The number of continuation bytes a lead byte announces, -1 for a byte that
\* cannot start a scalar value.
Utf8Need(b) ==
  IF b < 128 THEN 0
  ELSE IF b >= 194 /\ b <= 223 THEN 1
  ELSE IF b >= 224 /\ b <= 239 THEN 2
  ELSE IF b >= 240 /\ b <= 244 THEN 3
  ELSE -1

\* The range of the second byte, which depends on the lead byte.
Utf8SecondOk(lead, b) ==
  IF lead = 224 THEN b >= 160 /\ b <= 191
  ELSE IF lead = 237 THEN b >= 128 /\ b <= 159
  ELSE IF lead = 240 THEN b >= 144 /\ b <= 191
  ELSE IF lead = 244 THEN b >= 128 /\ b <= 143
  ELSE IsCont(b)

\* How many bytes after s[i] continue the sequence s[i] starts (at most the
\* number announced).
RECURSIVE Utf8Run(_, _, _, _)
Utf8Run(s, i, k, need) ==
  IF k > need \/ i + k > Len(s) THEN k - 1
  ELSE IF (k = 1 /\ Utf8SecondOk(s[i], s[i + k])) \/ (k > 1 /\ IsCont(s[i + k]))
       THEN Utf8Run(s, i, k + 1, need)
       ELSE k - 1

\* [ok, len]: whether a well-formed scalar value starts at s[i], and the length
\* of that value or of the ill-formed run to replace.
Utf8At(s, i) ==
  LET need == Utf8Need(s[i]) IN
  IF need < 0 THEN [ok |-> FALSE, len |-> 1]
  ELSE LET run == Utf8Run(s, i, 1, need) IN
       [ok |-> run = need, len |-> 1 + run]

\* Utf8At is worked out once for each position: u is bound to its value.
RECURSIVE from_utf8_from(_, _)
from_utf8_from(s, i) ==
  IF i > Len(s) THEN TRUE
  ELSE \E u \in {Utf8At(s, i)} : u.ok /\ from_utf8_from(s, i + u.len)

from_utf8_ok(s) == from_utf8_from(s, 1)

REPLACEMENT == <<239, 191, 189>>         \* U+FFFD

RECURSIVE lossy_from(_, _)
lossy_from(s, i) ==
  IF i > Len(s) THEN <<>>
  ELSE CHOOSE r \in {(IF u.ok THEN SubSeq(s, i, i + u.len - 1) ELSE REPLACEMENT)
                       \o lossy_from(s, i + u.len) : u \in {Utf8At(s, i)}} : TRUE

to_string_lossy(s) == lossy_from(s, 1)

(***************************************************************************)
(* RawHogRecord <-> HogRecord.                                             *)
(***************************************************************************)
(* A u64 or u32 the writer handles is the sequence of its bytes, least      *)
(* significant first (8 or 4 of them): a number of that width does not fit  *)
(* TLC's integers.  What the reader decodes is a number.                    *)
RECURSIVE LeBytes(_, _)
LeBytes(n, w) == IF w = 0 THEN <<>> ELSE <<n % 256>> \o LeBytes(n \div 256, w - 1)

U64(n) == LeBytes(n, 8)

\* a > b, for two numbers of the same width
RECURSIVE GtLe(_, _)
GtLe(a, b) ==
  IF a = <<>> THEN FALSE
  ELSE LET i == Len(a) IN
       IF a[i] # b[i] THEN a[i] > b[i] ELSE GtLe(Take(a, i - 1), Take(b, i - 1))

\* file_len as u32: the low four bytes
as_u32(n) == SubSeq(n, 1, LEN_LEN)

u32_to_be(n) == [i \in 1..Len(n) |-> n[Len(n) + 1 - i]]

\* u32::to_le: the bytes as they are stored
u32_to_le(n) == n

\* u32::from_le, as a number
u32_from_le(b) == b[1] + 256 * (b[2] + 256 * (b[3] + 256 * b[4]))

\* bytemuck::bytes_of(&RawHogRecord { filename, length })
RawHogRecord(filename, length) == filename \o u32_to_le(length)

\* self.filename.splitn(2, |x| *x == 0).next().unwrap()
RECURSIVE UntilNul(_)
WholeField(s) == s

UntilNul(s) ==
  IF s = <<>> \/ Head(s) = 0 THEN <<>> ELSE <<Head(s)>> \o UntilNul(Tail(s))

RECURSIVE TrimNuls(_)
TrimNuls(s) ==
  IF s = <<>> \/ s[Len(s)] # 0 THEN s ELSE TrimNuls(SubSeq(s, 1, Len(s) - 1))

filename_part_trimmed(raw) == TrimNuls(SubSeq(raw, 1, NAME_LEN))

filename_part(raw) == UntilNul(SubSeq(raw, 1, NAME_LEN))

\* RawHogRecord::filename_as_str followed by HogRecord::try_from
try_from(raw) ==
  LET part == filename_part(raw) IN
  IF from_utf8_ok(part)
  THEN [ok |-> TRUE, err |-> "", filename |-> part,
        length |-> u32_from_le(SubSeq(raw, NAME_LEN + 1, HDR_LEN))]
  ELSE [ok |-> FALSE, err |-> "InvalidFilename", filename |-> <<>>, length |-> 0]

(***************************************************************************)
(* Reading a stream.  One read() call is driven by an event: a number      *)
(* n > 0 lets the call return at most n bytes (a short read), 0 is         *)
(* ErrorKind::Interrupted, -1 is any other error.  When the schedule of    *)
(* events is used up, every further read returns all it can.               *)
(***************************************************************************)
Avail(s, p) == IF Len(s) > p THEN Len(s) - p ELSE 0
EvHead(sched, dflt) == IF sched = <<>> THEN dflt ELSE Head(sched)
EvTail(sched) == IF sched = <<>> THEN <<>> ELSE Tail(sched)

HeaderAtEofClean(offset) == [res |-> "none", err |-> ""]

\* What read_record_header answers when read() returns 0 bytes.
HeaderAtEof(offset) ==
  IF offset = 0 THEN [res |-> "none", err |-> ""]
  ELSE [res |-> "err", err |-> "UnexpectedEof"]

NoRec == [filename |-> <<>>, length |-> 0]

\* The loop of read_record_header: p is where the header starts, offset the
\* number of header bytes already in raw_bytes.
RECURSIVE read_header_loop(_, _, _, _)
read_header_loop(s, p, offset, sched) ==
  LET ev == EvHead(sched, HDR_LEN) IN
  IF ev = 0 THEN read_header_loop(s, p, offset, EvTail(sched))
  ELSE IF ev < 0
  THEN [res |-> "err", err |-> "ReadHeaderError", rec |-> NoRec, pos |-> p + offset]
  ELSE LET len == Min(HDR_LEN - offset, Min(ev, Avail(s, p + offset))) IN
       IF len = 0
       THEN LET e == HeaderAtEof(offset) IN
            [res |-> e.res, err |-> e.err, rec |-> NoRec, pos |-> p + offset]
       ELSE IF offset + len = HDR_LEN
       THEN LET hdr == try_from(SubSeq(s, p + 1, p + HDR_LEN)) IN
            IF hdr.ok
            THEN [res |-> "some", err |-> "",
                  rec |-> [filename |-> hdr.filename, length |-> hdr.length],
                  pos |-> p + HDR_LEN]
            ELSE [res |-> "err", err |-> hdr.err, rec |-> NoRec, pos |-> p + HDR_LEN]
       ELSE read_header_loop(s, p, offset + len, EvTail(sched))

read_header_interrupt_fails(s, p, sched) ==
  IF \E i \in DOMAIN sched : sched[i] = 0
  THEN [res |-> "err", err |-> "ReadHeaderError", rec |-> NoRec, pos |-> p]
  ELSE read_header_loop(s, p, 0, sched)

read_record_header(s, p, sched) == read_header_loop(s, p, 0, sched)

\* The loop of util::copy_n: copied bytes so far, out what the writer received.
RECURSIVE copy_n_loop(_, _, _, _, _, _)
copy_n_loop(s, p, n, copied, out, sched) ==
  IF copied >= n THEN [ok |-> TRUE, err |-> "", copied |-> copied, out |-> out, pos |-> p]
  ELSE LET max_read == Min(n - copied, BUF_LEN)
           ev == EvHead(sched, max_read) IN
       IF ev = 0 THEN copy_n_loop(s, p, n, copied, out, EvTail(sched))
       ELSE IF ev < 0
       THEN [ok |-> FALSE, err |-> "ReadError", copied |-> copied, out |-> out, pos |-> p]
       ELSE LET len == Min(max_read, Min(ev, Avail(s, p))) IN
            IF len = 0
            THEN [ok |-> TRUE, err |-> "", copied |-> copied, out |-> out, pos |-> p]
            ELSE copy_n_loop(s, p + len, n, copied + len,
                             out \o SubSeq(s, p + 1, p + len), EvTail(sched))

copy_n_to_end(s, p, n, sched) == copy_n_loop(s, p, Avail(s, p), 0, <<>>, sched)

copy_n(s, p, n, sched) == copy_n_loop(s, p, n, 0, <<>>, sched)

copy_exactly_n_lenient(s, p, n, sched) == copy_n(s, p, n, sched)

\* util::copy_exactly_n: Ok(copied) if copied == n, the error UnexpectedEof for
\* another count, and copy_n's error as it is.
copy_exactly_n(s, p, n, sched) ==
  LET r == copy_n(s, p, n, sched) IN
  [ok |-> r.ok /\ r.copied = n,
   err |-> IF ~r.ok THEN r.err ELSE IF r.copied = n THEN "" ELSE "UnexpectedEof",
   copied |-> r.copied, out |-> r.out, pos |-> r.pos]

(***************************************************************************)
(* The writer: HogFileWriter::create and HogFileWriter::append_file.       *)
(* A source file is [path, exists, len, size, seed]: path is its sequence  *)
(* of components, len what metadata().len() answers (a u64), size the      *)
(* number of bytes a read to the end delivers and seed what they are.      *)
(***************************************************************************)
Content(src) == [i \in 1..src.size |-> (src.seed + i) % 256]

DotDot == <<46, 46>>

\* Path::file_name: None (<<>>) for a path ending in "..", or with no component.
file_name(path) ==
  IF path = <<>> \/ path[Len(path)] = DotDot THEN <<>> ELSE <<path[Len(path)]>>

file_too_large_ge(file_len) == ~GtLe(U32_MAX, file_len)

\* if file_len > u32::MAX.into()
file_too_large(file_len) == GtLe(file_len, U32_MAX)

filename_too_long_gt(out_filename) == Len(out_filename) > NAME_LEN

\* if out_filename.len() >= 13
filename_too_long(out_filename) == Len(out_filename) >= NAME_LEN

\* Vec::resize(n, b)
resize(v, n, b) == IF Len(v) >= n THEN Take(v, n) ELSE v \o Rep(b, n - Len(v))

\* The header append_file builds for an accepted source.
append_hdr(out_filename, file_len) ==
  RawHogRecord(resize(out_filename, NAME_LEN, 0), as_u32(file_len))

io_copy_padded(src) == Content(src) \o Rep(0, src.size % 2)

\* std::io::copy(&mut in_file, &mut self.file): everything up to the end of the source.
io_copy(src) == Content(src)

AppendErr_after_header(arch, e) ==
  [ok |-> FALSE, err |-> e, archive |-> arch \o Rep(0, HDR_LEN), ret |-> 0]

AppendErr(arch, e) == [ok |-> FALSE, err |-> e, archive |-> arch, ret |-> 0]

HeaderErr(e) == [ok |-> FALSE, err |-> e, hdr |-> <<>>]

\* append_file before it writes: the source is opened, its length and its
\* name are checked, the header is built.
append_header(src) ==
  IF ~src.exists THEN HeaderErr("OpenInputFailure")
  ELSE IF file_too_large(src.len) THEN HeaderErr("FileTooLarge")
  ELSE LET name == file_name(src.path) IN
       IF name = <<>> THEN HeaderErr("BadHogFilename")
       ELSE LET out_filename == to_string_lossy(name[1]) IN
            IF filename_too_long(out_filename) THEN HeaderErr("HogFilenameTooLong")
            ELSE [ok |-> TRUE, err |-> "", hdr |-> append_hdr(out_filename, src.len)]

\* append_file: the header is written, then the source is copied after it.
append_file(arch, src) ==
  LET h == append_header(src) IN
  IF ~h.ok THEN AppendErr(arch, h.err)
  ELSE LET body == io_copy(src) IN
       [ok |-> TRUE, err |-> "", archive |-> arch \o h.hdr \o body, ret |-> Len(body)]

\* HogFileWriter::create: File::create truncates, then the signature is written.
create == HOG_SIGNATURE

(***************************************************************************)
(* The reader: HogFileReader::open, records, and the cursor.               *)
(***************************************************************************)
open_first_byte(arch) ==
  IF arch = <<>> THEN [ok |-> FALSE, err |-> "SignatureReadFailure"]
  ELSE IF Head(arch) # Head(HOG_SIGNATURE)
  THEN [ok |-> FALSE, err |-> "InvalidSignature"]
  ELSE [ok |-> TRUE, err |-> ""]

\* read_exact(&mut signature), then the comparison with HOG_SIGNATURE.
open(arch) ==
  IF Len(arch) < SIG_LEN THEN [ok |-> FALSE, err |-> "SignatureReadFailure"]
  ELSE IF SubSeq(arch, 1, SIG_LEN) # HOG_SIGNATURE
  THEN [ok |-> FALSE, err |-> "InvalidSignature"]
  ELSE [ok |-> TRUE, err |-> ""]

records_no_seek(p) == [pos |-> p, cur_file_len |-> <<>>, hit_error |-> FALSE]

\* HogFileReader::records: seek(SeekFrom::Start(3)) and a fresh HogRecordIter.
records(p) == [pos |-> SIG_LEN, cur_file_len |-> <<>>, hit_error |-> FALSE]

taken_kept(cfl) == cfl

\* The cursor's cur_file_len after copy_cur_file's self.cur_file_len.take().
taken(cfl) == <<>>

pending_after_any(h) == <<h.rec.length>>

\* Ok(Some(hdr)) => self.cur_file_len = Some(hdr.length.into()); after the
\* take() above, it is None in the other arms.
pending_after(h) == IF h.res = "some" THEN <<h.rec.length>> ELSE <<>>

seek_failure_unflagged(p) ==
  [res |-> "err", err |-> "SeekFailure", rec |-> NoRec, pos |-> p, at |-> p,
   cur_file_len |-> <<>>, hit_error |-> FALSE, skipped |-> FALSE]

\* Err(e) => { self.hit_error = true; return Some(Err(HogError::SeekFailure(e))) }
seek_failure(p) ==
  [res |-> "err", err |-> "SeekFailure", rec |-> NoRec, pos |-> p, at |-> p,
   cur_file_len |-> <<>>, hit_error |-> TRUE, skipped |-> FALSE]

seek_current_none(p, off) == p

\* self.reader.seek(SeekFrom::Current(len)): off bytes further on, wherever
\* the file ends.
seek_current(p, off) == p + off

\* HogRecordIter::next.  seek_ok: whether the skip's seek succeeds.
next(s, p, cfl, he, seek_ok, sched) ==
  IF he
  THEN [res |-> "none", err |-> "", rec |-> NoRec, pos |-> p, at |-> p,
        cur_file_len |-> cfl, hit_error |-> he, skipped |-> FALSE]
  ELSE IF cfl # <<>> /\ ~seek_ok
  THEN seek_failure(p)
  ELSE LET at == IF cfl # <<>> THEN seek_current(p, cfl[1]) ELSE p
           h == read_record_header(s, at, sched) IN
       [res |-> h.res, err |-> h.err, rec |-> h.rec, pos |-> h.pos, at |-> at,
        cur_file_len |-> pending_after(h),
        hit_error |-> he,
        skipped |-> cfl # <<>>]

copy_none_is_error(p) == [res |-> "err", err |-> "ExtractFailure", pos |-> p, out |-> <<>>]

\* HogRecordIter::copy_cur_file, for a cursor with nothing pending:
\* None => panic!(...), before anything is read or written.
copy_none(p) == [res |-> "panic", err |-> "", pos |-> p, out |-> <<>>]

\* HogRecordIter::copy_cur_file, for a cursor with a pending record.
copy_cur_file(s, p, cfl, sched) ==
  LET c == copy_exactly_n(s, p, cfl[1], sched) IN
  [ok |-> c.ok, err |-> IF c.ok THEN "" ELSE "ExtractFailure",
   out |-> c.out, pos |-> c.pos, cur_file_len |-> taken(cfl)]

(***************************************************************************)
(* The inputs: the source files append_file is given, and the archive      *)
(* files found on disk (every prefix of a signature followed by up to      *)
(* MaxInputRecs records, and files with another signature).                *)
(***************************************************************************)
NameA == <<65>>
DirD == <<100>>
BadName == <<255>>                       \* no UTF-8 sequence holds this byte

EAcute == <<195, 169>>                   \* U+00E9 in UTF-8

\* Final path components other than "A": 12 bytes and more, two bytes for one
\* character, bytes that are no UTF-8.
OtherNames ==
  {Rep(65, n) : n \in (NAME_LEN - 1)..MaxNameLen}
    \cup {EAcute, BadName, Rep(Head(BadName), 5)}

RegularFile(path, n) ==
  [path |-> path, exists |-> TRUE, len |-> U64(n), size |-> n, seed |-> 16 * n]

SrcFiles ==
  {RegularFile(<<NameA>>, n) : n \in 0..MaxData}
    \cup {RegularFile(<<nm>>, MaxData - (Len(nm) % 2)) : nm \in OtherNames}
    \cup {RegularFile(<<DirD, NameA>>, 1),
          RegularFile(<<DirD, DotDot>>, 0),
          [path |-> <<NameA>>, exists |-> FALSE, len |-> U64(0), size |-> 0, seed |-> 0]}

\* An input record, laid out byte by byte: 13 name bytes, the length as four
\* little-endian bytes (n < 256), n payload bytes.
InRec(name, n, pad) ==
  name \o Rep(pad, NAME_LEN - Len(name)) \o <<n, 0, 0, 0>> \o [i \in 1..n |-> 32 * n + i]

InputRecs ==
  {InRec(NameA, MaxData - 1, 0), InRec(<<66>>, MaxData, 0), InRec(NameA, 0, 0),
   InRec(BadName, 1, 0), InRec(<<67>>, 0, 67)}

RECURSIVE InputBodies(_)
InputBodies(k) ==
  IF k = 0 THEN {<<>>}
  ELSE LET shorter == InputBodies(k - 1) IN
       shorter \cup {b \o r : b \in shorter, r \in InputRecs}

BadSignature == <<72, 79, 71>>

\* Where an input archive may be cut short inside its last record: in the
\* name, before the last header byte, after the header, before the last byte.
Cuts(r) == {1, HDR_LEN - 1, HDR_LEN, Len(r) - 1} \cap (1..(Len(r) - 1))

InputArchives ==
  {HOG_SIGNATURE \o b : b \in InputBodies(MaxInputRecs)}
    \cup UNION {{HOG_SIGNATURE \o b \o Take(r, n) :
                    b \in InputBodies(MaxInputRecs - 1), n \in Cuts(r)} : r \in InputRecs}
    \cup {Take(HOG_SIGNATURE, n) : n \in 0..(SIG_LEN - 1)}
    \cup {BadSignature, BadSignature \o InRec(NameA, 0, 0)}

\* Read schedules of a fault-free stream: short reads only.
ShortReads == {<<>>, <<1>>, <<NAME_LEN, 1>>}

(***************************************************************************)
(* The outcome of a library call, kept in last, and the history entries.   *)
(***************************************************************************)
NoSrc == [path |-> <<>>, exists |-> FALSE, len |-> U64(0), size |-> 0, seed |-> 0]

Outcome(op, res, err) ==
  [op |-> op, res |-> res, err |-> err, rec |-> NoRec, at |-> 0, skipped |-> FALSE,
   ret |-> 0, src |-> NoSrc, before |-> <<>>]

Yield(n) ==
  [kind |-> IF n.res = "some" THEN "rec" ELSE "err", err |-> n.err,
   filename |-> n.rec.filename, length |-> n.rec.length, at |-> n.at,
   skipped |-> n.skipped, copied |-> "no", data |-> <<>>]

\* No byte-level call under way.
NoIo == [op |-> "none", src |-> <<>>, n |-> 0, sched |-> <<>>, res |-> "", err |-> "",
         ret |-> 0, out |-> <<>>, pos |-> 0, rec |-> NoRec, bad |-> -1, calls |-> 0]

NoInfo == [files_processed |-> 0, files_extracted |-> 0, files_skipped |-> 0,
           bytes_extracted |-> 0, num_files |-> 0, num_bytes |-> 0]

InitLib ==
  /\ archive \in InputArchives
  /\ origin = "input"
  /\ writer = FALSE
  /\ appended = <<>>
  /\ reader = FALSE
  /\ pos = 0
  /\ cursor = "none"
  /\ cur_file_len = <<>>
  /\ hit_error = FALSE
  /\ gen = 0
  /\ yielded = <<>>
  /\ last = Outcome("init", "ok", "")

InitDrv ==
  /\ pc = "idle"
  /\ overwrite = FALSE
  /\ info = NoInfo
  /\ result = "none"
  /\ disk = [n \in {} |-> <<>>]
  /\ hist = <<>>
  /\ files = <<>>
  /\ io = NoIo

Init == InitLib /\ InitDrv

(***************************************************************************)
(* The library calls, as a program may issue them.                         *)
(***************************************************************************)
CallCreate ==
  /\ ~writer /\ ~reader
  /\ archive' = create
  /\ origin' = "created"
  /\ writer' = TRUE
  /\ appended' = <<>>
  /\ last' = Outcome("create", "ok", "")
  /\ UNCHANGED <<reader, pos, cursor, cur_file_len, hit_error, gen, yielded>>
  /\ UNCHANGED <<drvVars, auxVars>>

CallAppendFile ==
  /\ writer /\ Len(appended) < MaxAppends
  /\ \E src \in SrcFiles :
     \E r \in {append_file(archive, src)} :
       /\ archive' = r.archive
       /\ appended' = IF r.ok THEN Append(appended, src) ELSE appended
       /\ last' = [Outcome("append_file", IF r.ok THEN "ok" ELSE "err", r.err)
                     EXCEPT !.ret = r.ret, !.src = src, !.before = archive]
  /\ UNCHANGED <<origin, writer, reader, pos, cursor, cur_file_len, hit_error, gen, yielded>>
  /\ UNCHANGED <<drvVars, auxVars>>

DropWriter ==
  /\ writer
  /\ writer' = FALSE
  /\ last' = Outcome("drop", "ok", "")
  /\ UNCHANGED <<archive, origin, appended, reader, pos, cursor, cur_file_len,
                 hit_error, gen, yielded>>
  /\ UNCHANGED <<drvVars, auxVars>>

CallOpen ==
  /\ ~writer /\ ~reader
  /\ LET r == open(archive) IN
     /\ reader' = r.ok
     /\ pos' = IF r.ok THEN SIG_LEN ELSE 0
     /\ last' = Outcome("open", IF r.ok THEN "ok" ELSE "err", r.err)
  /\ cursor' = "none"
  /\ cur_file_len' = <<>>
  /\ hit_error' = FALSE
  /\ gen' = 0
  /\ yielded' = <<>>
  /\ UNCHANGED <<archive, origin, appended, writer>>
  /\ UNCHANGED <<drvVars, auxVars>>

CallRecords ==
  /\ reader /\ cursor # "panicked" /\ gen < MaxCursors
  /\ LET r == records(pos) IN
     /\ pos' = r.pos
     /\ cur_file_len' = r.cur_file_len
     /\ hit_error' = r.hit_error
  /\ cursor' = "live"
  /\ gen' = gen + 1
  /\ yielded' = <<>>
  /\ last' = Outcome("records", "ok", "")
  /\ UNCHANGED <<archive, origin, appended, writer, reader>>
  /\ UNCHANGED <<drvVars, auxVars>>

CallNext ==
  /\ cursor = "live"
  /\ \E sched \in ShortReads :
     \E n \in {next(archive, pos, cur_file_len, hit_error, TRUE, sched)} :
       /\ pos' = n.pos
       /\ cur_file_len' = n.cur_file_len
       /\ hit_error' = n.hit_error
       /\ yielded' = IF n.res = "none" THEN yielded ELSE Append(yielded, Yield(n))
       /\ last' = [Outcome("next", n.res, n.err)
                     EXCEPT !.rec = n.rec, !.at = n.at, !.skipped = n.skipped]
  /\ UNCHANGED <<archive, origin, appended, writer, reader, cursor, gen>>
  /\ UNCHANGED <<drvVars, auxVars>>

CallCopyCurFile ==
  /\ cursor = "live"
  /\ IF cur_file_len = <<>>
     THEN \* panic!("attempted to copy file without first scanning for the header")
          LET c == copy_none(pos) IN
          /\ cursor' = IF c.res = "panic" THEN "panicked" ELSE cursor
          /\ pos' = c.pos
          /\ last' = [Outcome("copy_cur_file", c.res, c.err) EXCEPT !.ret = Len(c.out)]
          /\ UNCHANGED <<cur_file_len, yielded>>
     ELSE \E sched \in ShortReads :
          \E c \in {copy_cur_file(archive, pos, cur_file_len, sched)} :
            /\ pos' = c.pos
            /\ cur_file_len' = c.cur_file_len
            /\ yielded' = [yielded EXCEPT ![Len(yielded)] =
                             [@ EXCEPT !.copied = IF c.ok THEN "ok" ELSE "err",
                                       !.data = c.out]]
            /\ last' = [Outcome("copy_cur_file", IF c.ok THEN "ok" ELSE "err", c.err)
                          EXCEPT !.ret = Len(c.out)]
            /\ UNCHANGED cursor
  /\ UNCHANGED <<archive, origin, appended, writer, reader, hit_error, gen>>
  /\ UNCHANGED <<drvVars, auxVars>>

DropReader ==
  /\ reader
  /\ reader' = FALSE
  /\ pos' = 0
  /\ cursor' = "none"
  /\ cur_file_len' = <<>>
  /\ hit_error' = FALSE
  /\ gen' = 0
  /\ yielded' = <<>>
  /\ last' = Outcome("drop", "ok", "")
  /\ UNCHANGED <<archive, origin, appended, writer>>
  /\ UNCHANGED <<drvVars, auxVars>>

Next ==
  \/ CallCreate
  \/ CallAppendFile
  \/ DropWriter
  \/ CallOpen
  \/ CallRecords
  \/ CallNext
  \/ CallCopyCurFile
  \/ DropReader

Spec == Init /\ [][Next]_vars

(***************************************************************************)
(* The drivers of main.rs: hog_dump (extract) and hog_info (list), one     *)
(* action per turn of their loops.  A finished run is appended to hist.    *)
(***************************************************************************)
create_new_never_exists(name, d) == FALSE

\* OpenOptions::new().write(true).create_new(true).open(name): AlreadyExists
create_new_exists(name, d) == name \in DOMAIN d

\* File::create(name) / create_new: the empty name cannot be created, and the
\* environment may refuse any other.
create_succeeds(name, env_ok) == name # <<>> /\ env_ok

create_error_logged(e) == [returns |-> FALSE, err |-> ""]

\* File::create(hdr.filename).map_err(HogError::OpenOutputFailure)?
\* and Err(e) => return Err(HogError::OpenOutputFailure(e)): hog_dump returns.
create_error(e) == [returns |-> TRUE, err |-> "OpenOutputFailure"]

WriteFile(d, name, data) ==
  [n \in DOMAIN d \cup {name} |-> IF n = name THEN data ELSE d[n]]

Run(kind, ow, res, inf, d) ==
  [kind |-> kind, overwrite |-> ow, result |-> res, info |-> inf, disk |-> d]

\* The run returns: the reader is dropped and the outcome recorded.
Return(kind, ow, res, inf, d) ==
  /\ pc' = "idle"
  /\ result' = res
  /\ info' = inf
  /\ disk' = d
  /\ hist' = Append(hist, Run(kind, ow, res, inf, d))
  /\ reader' = FALSE
  /\ pos' = 0
  /\ cur_file_len' = <<>>
  /\ hit_error' = FALSE

\* HogFileReader::new(path)? and hog_file.records()? at the head of both
\* drivers, for the archive file a.
Begin(kind, ow, a) ==
  /\ pc = "idle" /\ ~reader /\ ~writer
  /\ LET o == open(a) IN
     IF o.ok
     THEN LET r == records(SIG_LEN) IN
          /\ pc' = kind
          /\ reader' = TRUE
          /\ pos' = r.pos
          /\ cur_file_len' = r.cur_file_len
          /\ hit_error' = r.hit_error
          /\ info' = NoInfo
          /\ result' = "none"
          /\ UNCHANGED <<disk, hist>>
     ELSE Return(kind, ow, o.err, NoInfo, disk)
  /\ overwrite' = ow
  /\ last' = Outcome(kind, "start", "")
  /\ UNCHANGED <<origin, writer, appended, cursor, gen, yielded>>

\* A run of a driver on the archive.
Start(kind, ow) ==
  /\ Len(hist) < MaxRuns
  /\ Begin(kind, ow, archive)
  /\ UNCHANGED <<archive, auxVars>>

StartDump ==
  \E ow \in BOOLEAN : Start("dump", ow)

StartInfo ==
  Start("info", FALSE)

\* Going round the loop: the cursor is left where the turn ended.
Continue(inf, d, p, cfl) ==
  /\ info' = inf
  /\ disk' = d
  /\ pos' = p
  /\ cur_file_len' = cfl
  /\ UNCHANGED <<pc, result, hist, reader, hit_error>>

\* hog_extract_info.files_skipped += 1
count_skipped(inf) == [inf EXCEPT !.files_skipped = @ + 1]

count_extracted_files_only(inf, length) == [inf EXCEPT !.files_extracted = @ + 1]

\* hog_extract_info.bytes_extracted += u64::from(hdr.length);
\* hog_extract_info.files_extracted += 1
count_extracted(inf, length) ==
  [inf EXCEPT !.bytes_extracted = @ + length, !.files_extracted = @ + 1]

\* One turn of hog_dump's loop: iter.next(), then the arm taken.
DumpStep ==
  /\ pc = "dump"
  /\ \E sched \in ShortReads, env_ok \in BOOLEAN :
     \E n \in {next(archive, pos, cur_file_len, hit_error, TRUE, sched)} :
       LET name == n.rec.filename
           seen == [info EXCEPT !.files_processed = @ + 1]
           c == copy_cur_file(archive, n.pos, n.cur_file_len, sched)
       IN
       IF n.res = "none"
       THEN /\ Return("dump", overwrite, "Ok", info, disk)
            /\ last' = Outcome("dump", "end", "")
       ELSE IF n.res = "err"
       THEN /\ Return("dump", overwrite, n.err, info, disk)
            /\ last' = Outcome("dump", "err", n.err)
       ELSE IF ~overwrite /\ create_new_exists(name, disk)
       THEN /\ Continue(count_skipped(seen), disk, n.pos, n.cur_file_len)
            /\ last' = [Outcome("dump", "skipped", "") EXCEPT !.rec = n.rec]
       ELSE IF ~create_succeeds(name, env_ok)
       THEN /\ IF create_error(name).returns
               THEN Return("dump", overwrite, create_error(name).err, seen, disk)
               ELSE Continue(seen, disk, n.pos, n.cur_file_len)
            /\ last' = [Outcome("dump", "err", "OpenOutputFailure") EXCEPT !.rec = n.rec]
       ELSE IF ~c.ok
       THEN /\ Return("dump", overwrite, c.err, seen, WriteFile(disk, name, c.out))
            /\ last' = [Outcome("dump", "err", c.err) EXCEPT !.rec = n.rec]
       ELSE /\ Continue(count_extracted(seen, n.rec.length),
                        WriteFile(disk, name, c.out), c.pos, c.cur_file_len)
            /\ last' = [Outcome("dump", "extracted", "") EXCEPT !.rec = n.rec]
  /\ UNCHANGED <<archive, origin, writer, appended, cursor, gen, yielded, overwrite>>
  /\ UNCHANGED auxVars

\* One turn of hog_info's loop.
InfoStep ==
  /\ pc = "info"
  /\ \E sched \in ShortReads :
     \E n \in {next(archive, pos, cur_file_len, hit_error, TRUE, sched)} :
       IF n.res = "none"
       THEN /\ Return("info", overwrite, "Ok", info, disk)
            /\ last' = Outcome("info", "end", "")
       ELSE IF n.res = "err"
       THEN /\ Return("info", overwrite, n.err, info, disk)
            /\ last' = Outcome("info", "err", n.err)
       ELSE /\ Continue([info EXCEPT !.num_files = @ + 1,
                                     !.num_bytes = @ + n.rec.length],
                        disk, n.pos, n.cur_file_len)
            /\ last' = [Outcome("info", "listed", "") EXCEPT !.rec = n.rec]
  /\ UNCHANGED <<archive, origin, writer, appended, cursor, gen, yielded, overwrite>>
  /\ UNCHANGED auxVars

\* The extraction directory at the start: empty, or already holding a file "A".
DiskInits == {[n \in {} |-> <<>>], [n \in {NameA} |-> <<9>>]}

InitDump ==
  /\ InitLib
  /\ pc = "idle"
  /\ overwrite = FALSE
  /\ info = NoInfo
  /\ result = "none"
  /\ disk \in DiskInits
  /\ hist = <<>>
  /\ files = <<>>
  /\ io = NoIo

NextDump ==
  \/ StartDump
  \/ DumpStep
  \/ StartInfo
  \/ InfoStep

SpecDump == InitDump /\ [][NextDump]_vars

(***************************************************************************)
(* The byte-level functions on their own: util::copy_n, util::copy_exactly_n *)
(* and the cursor's two reads, applied once to a stream positioned after   *)
(* the signature, under a schedule of read events (short reads,            *)
(* interruptions, errors).                                                 *)
(***************************************************************************)
\* What one read() may do: fail (-1), be interrupted (0), deliver at most 1
\* or at most 13 bytes.
ReadEvents == {-1, 0, 1, NAME_LEN}

RECURSIVE Schedules(_)
Schedules(k) ==
  IF k = 0 THEN {<<>>}
  ELSE LET shorter == Schedules(k - 1) IN
       shorter \cup {<<e>> \o sc : e \in ReadEvents, sc \in shorter}

\* The streams: a signature, then a record whole or cut short.
IoStreams ==
  UNION {{HOG_SIGNATURE \o Take(r, k) : k \in Cuts(r) \cup {0, LEN_LEN - 2, Len(r)}} :
           r \in InputRecs}

InitIo ==
  /\ archive \in IoStreams
  /\ origin = "input"
  /\ writer = FALSE
  /\ appended = <<>>
  /\ reader = FALSE
  /\ pos = 0
  /\ cursor = "none"
  /\ cur_file_len = <<>>
  /\ hit_error = FALSE
  /\ gen = 0
  /\ yielded = <<>>
  /\ last = Outcome("init", "ok", "")
  /\ pc = "idle"
  /\ overwrite = FALSE
  /\ info = NoInfo
  /\ result = "none"
  /\ disk = [n \in {} |-> <<>>]
  /\ hist = <<>>
  /\ files = <<>>
  /\ \E n \in 0..(MaxData + 1), sc \in Schedules(MaxEvents) :
       io = [NoIo EXCEPT !.n = n, !.sched = sc, !.pos = SIG_LEN]

\* copy_n(&mut stream, &mut out, n)
ApplyCopyN ==
  /\ io.op = "none"
  /\ \E r \in {copy_n(archive, SIG_LEN, io.n, io.sched)} :
       io' = [io EXCEPT !.op = "copy_n", !.res = IF r.ok THEN "ok" ELSE "err",
                        !.err = r.err, !.ret = r.copied, !.out = r.out, !.pos = r.pos]
  /\ UNCHANGED <<libVars, drvVars, files>>

\* copy_exactly_n(&mut stream, &mut out, n)
ApplyCopyExactlyN ==
  /\ io.op = "none"
  /\ \E r \in {copy_exactly_n(archive, SIG_LEN, io.n, io.sched)} :
       io' = [io EXCEPT !.op = "copy_exactly_n", !.res = IF r.ok THEN "ok" ELSE "err",
                        !.err = r.err, !.ret = r.copied, !.out = r.out, !.pos = r.pos]
  /\ UNCHANGED <<libVars, drvVars, files>>

\* next() on a new cursor.
ApplyNext ==
  /\ io.op = "none"
  /\ \E r \in {next(archive, SIG_LEN, <<>>, FALSE, TRUE, io.sched)} :
       io' = [io EXCEPT !.op = "next", !.res = r.res, !.err = r.err, !.rec = r.rec,
                        !.pos = r.pos]
  /\ UNCHANGED <<libVars, drvVars, files>>

\* copy_cur_file() after a next() that yielded the first record.
ApplyCopyCurFile ==
  /\ io.op = "none"
  /\ \E h \in {next(archive, SIG_LEN, <<>>, FALSE, TRUE, <<>>)} :
       /\ h.res = "some"
       /\ \E r \in {copy_cur_file(archive, h.pos, h.cur_file_len, io.sched)} :
            io' = [io EXCEPT !.op = "copy_cur_file", !.res = IF r.ok THEN "ok" ELSE "err",
                             !.err = r.err, !.rec = h.rec, !.ret = Len(r.out),
                             !.out = r.out, !.pos = r.pos]
  /\ UNCHANGED <<libVars, drvVars, files>>

NextIo ==
  \/ ApplyCopyN
  \/ ApplyCopyExactlyN
  \/ ApplyNext
  \/ ApplyCopyCurFile

SpecIo == InitIo /\ [][NextIo]_vars

(***************************************************************************)
(* The batch drivers: hog_dump_files and hog_dump_info go through the      *)
(* archives named on the command line, one run of hog_dump / hog_info      *)
(* each; hist holds one entry per archive gone through.                    *)
(***************************************************************************)
\* The archive files a command line may name: one and two records, another
\* signature, a file shorter than the signature, a payload cut off, a name
\* that is no UTF-8, a header cut off, a name with a directory in it.
UpName == <<46, 46, 47, 65>>            \* "../A"

BatchArchives ==
  {HOG_SIGNATURE \o InRec(NameA, MaxData - 1, 0),
   HOG_SIGNATURE \o InRec(NameA, MaxData - 1, 0) \o InRec(<<66>>, MaxData, 0),
   BadSignature,
   Take(HOG_SIGNATURE, SIG_LEN - 1),
   HOG_SIGNATURE \o Take(InRec(<<66>>, MaxData, 0), HDR_LEN),
   HOG_SIGNATURE \o InRec(BadName, 1, 0),
   HOG_SIGNATURE \o Take(InRec(NameA, 0, 0), NAME_LEN),
   HOG_SIGNATURE \o InRec(UpName, 1, 0)}

RECURSIVE Batches(_)
Batches(k) ==
  IF k = 0 THEN {<<>>}
  ELSE LET shorter == Batches(k - 1) IN
       shorter \cup {Append(b, a) : b \in shorter, a \in BatchArchives}

InitBatch ==
  /\ archive = <<>>
  /\ origin = "input"
  /\ writer = FALSE
  /\ appended = <<>>
  /\ reader = FALSE
  /\ pos = 0
  /\ cursor = "none"
  /\ cur_file_len = <<>>
  /\ hit_error = FALSE
  /\ gen = 0
  /\ yielded = <<>>
  /\ last = Outcome("init", "ok", "")
  /\ pc = "idle"
  /\ overwrite \in BOOLEAN
  /\ info = NoInfo
  /\ result = "none"
  /\ disk = [n \in {} |-> <<>>]
  /\ hist = <<>>
  /\ files \in Batches(MaxFiles)
  /\ io = NoIo

loop_breaks_on_error(res) == res = "Ok"

\* for file in files { match hog_dump(file, overwrite) { Ok(..) => println!, 
\* Err(e) => eprintln! } }: the loop goes on after either arm.
loop_continues(res) == TRUE

\* The loop takes the next file and calls hog_dump / hog_info on it.
BatchStart(kind) ==
  /\ Len(hist) < Len(files)
  /\ hist # <<>> => (kind = hist[1].kind /\ loop_continues(hist[Len(hist)].result))
  /\ archive' = files[Len(hist) + 1]
  /\ Begin(kind, overwrite, files[Len(hist) + 1])
  /\ UNCHANGED auxVars

\* hog_dump_files
BatchDump == BatchStart("dump")

\* hog_dump_info
BatchInfo == overwrite = FALSE /\ BatchStart("info")

NextBatch ==
  \/ BatchDump
  \/ DumpStep
  \/ BatchInfo
  \/ InfoStep

\* The loops are sequential code: a driver that can take a step takes it.
SpecBatch == InitBatch /\ [][NextBatch]_vars /\ WF_vars(NextBatch)

(***************************************************************************)
(* SpecLen: append_file's checks and its header, applied once to sources   *)
(* whose length lies on either side of u32::MAX.  The bytes of such a      *)
(* source are not laid out: the header is built before any of them is read.*)
(***************************************************************************)
\* What metadata().len() answers, as eight bytes: every mix of 0 and 255 in
\* the low four with 0 and 1 above them, the neighbours of u32::MAX, small
\* lengths, a length with only its top byte set.
SrcLens ==
  {<<b1, b2, b3, b4, b5, 0, 0, 0>> : b1, b2, b3, b4 \in {0, 255}, b5 \in {0, 1}}
    \cup {U64(n) : n \in 0..MaxData}
    \cup {<<254, 255, 255, 255, 0, 0, 0, 0>>, <<1, 0, 0, 0, 1, 0, 0, 0>>,
          <<255, 255, 255, 255, 0, 0, 0, 1>>, <<0, 0, 0, 0, 0, 0, 0, 128>>}

LargeFile(path, len) == [path |-> path, exists |-> TRUE, len |-> len]

InitLen ==
  /\ archive = create
  /\ origin = "created"
  /\ writer = TRUE
  /\ appended = <<>>
  /\ reader = FALSE
  /\ pos = 0
  /\ cursor = "none"
  /\ cur_file_len = <<>>
  /\ hit_error = FALSE
  /\ gen = 0
  /\ yielded = <<>>
  /\ last = Outcome("init", "ok", "")
  /\ pc = "idle"
  /\ overwrite = FALSE
  /\ info = NoInfo
  /\ result = "none"
  /\ disk = [n \in {} |-> <<>>]
  /\ hist = <<>>
  /\ files = <<>>
  /\ \E path \in {<<NameA>>, <<DirD, NameA>>}, len \in SrcLens :
       io = [NoIo EXCEPT !.src = LargeFile(path, len)]

\* append_file up to the header it is about to write
ApplyAppendHeader ==
  /\ io.op = "none"
  /\ \E h \in {append_header(io.src)} :
       io' = [io EXCEPT !.op = "append_file", !.res = IF h.ok THEN "ok" ELSE "err",
                        !.err = h.err, !.out = h.hdr]
  /\ UNCHANGED <<libVars, drvVars, files>>

NextLen == ApplyAppendHeader

SpecLen == InitLen /\ [][NextLen]_vars

(***************************************************************************)
(* SpecFault: one reader and its cursors on an archive file whose medium   *)
(* may be unreadable from some offset on, and whose skips may fail.  The   *)
(* caller calls next() again and again, copying a pending payload or not.  *)
(***************************************************************************)
\* What the reads of one call meet when the file cannot be read from offset
\* bad on (bad < 0: it can be read throughout) and the call starts reading
\* at p: an error at once, or the bytes before bad and then the error.
MediaSched(bad, p) ==
  IF bad < 0 THEN <<>>
  ELSE IF p >= bad THEN <<-1>>
  ELSE <<bad - p, -1>>

\* Where the medium may begin to fail: nowhere, at the first header, inside
\* it, at the first payload, one byte into it.
BadFrom(a) ==
  {-1} \cup ({SIG_LEN, SIG_LEN + NAME_LEN, SIG_LEN + HDR_LEN, SIG_LEN + HDR_LEN + 1}
               \cap 0..(Len(a) - 1))

InitFault ==
  /\ archive \in {a \in InputArchives : open(a).ok}
  /\ origin = "input"
  /\ writer = FALSE
  /\ appended = <<>>
  /\ reader = TRUE
  /\ pos = records(SIG_LEN).pos
  /\ cursor = "live"
  /\ cur_file_len = records(SIG_LEN).cur_file_len
  /\ hit_error = records(SIG_LEN).hit_error
  /\ gen = 1
  /\ yielded = <<>>
  /\ last = Outcome("records", "ok", "")
  /\ pc = "idle"
  /\ overwrite = FALSE
  /\ info = NoInfo
  /\ result = "none"
  /\ disk = [n \in {} |-> <<>>]
  /\ hist = <<>>
  /\ files = <<>>
  /\ \E bad \in BadFrom(archive) : io = [NoIo EXCEPT !.bad = bad]

\* iter.next(); the calls of a cursor are counted round and round.
FaultNext ==
  /\ cursor = "live"
  /\ \E seek_ok \in BOOLEAN :
     \E at \in {IF cur_file_len # <<>> THEN seek_current(pos, cur_file_len[1]) ELSE pos} :
     \E n \in {next(archive, pos, cur_file_len, hit_error, seek_ok,
                    MediaSched(io.bad, at))} :
       /\ pos' = n.pos
       /\ cur_file_len' = n.cur_file_len
       /\ hit_error' = n.hit_error
       /\ last' = [Outcome("next", n.res, n.err)
                     EXCEPT !.rec = n.rec, !.at = n.at, !.skipped = n.skipped]
  /\ io' = [io EXCEPT !.calls = (@ + 1) % MaxCalls]
  /\ UNCHANGED <<archive, origin, appended, writer, reader, cursor, gen, yielded>>
  /\ UNCHANGED <<drvVars, files>>

\* iter.copy_cur_file(&mut out) after a record was yielded
FaultCopyCurFile ==
  /\ cursor = "live" /\ cur_file_len # <<>>
  /\ \E c \in {copy_cur_file(archive, pos, cur_file_len, MediaSched(io.bad, pos))} :
       /\ pos' = c.pos
       /\ cur_file_len' = c.cur_file_len
       /\ last' = [Outcome("copy_cur_file", IF c.ok THEN "ok" ELSE "err", c.err)
                     EXCEPT !.ret = Len(c.out)]
  /\ UNCHANGED <<archive, origin, appended, writer, reader, cursor, hit_error, gen,
                 yielded>>
  /\ UNCHANGED <<drvVars, auxVars>>

\* hog_file.records() again: the cursor before it is gone.
FaultRecords ==
  /\ reader /\ gen < MaxCursors
  /\ \E r \in {records(pos)} :
       /\ pos' = r.pos
       /\ cur_file_len' = r.cur_file_len
       /\ hit_error' = r.hit_error
  /\ gen' = gen + 1
  /\ last' = Outcome("records", "ok", "")
  /\ io' = [io EXCEPT !.calls = 0]
  /\ UNCHANGED <<archive, origin, appended, writer, reader, cursor, yielded>>
  /\ UNCHANGED <<drvVars, files>>

NextFault ==
  \/ FaultNext
  \/ FaultCopyCurFile
  \/ FaultRecords

\* The caller's loop goes on calling next().
SpecFault == InitFault /\ [][NextFault]_vars /\ WF_vars(FaultNext)

(***************************************************************************)
(* SpecName: HogRecord::try_from applied once to a header whose name field *)
(* has its first zero byte early, late or nowhere, and anything after it.  *)
(***************************************************************************)
\* What a name field may hold before its first zero byte: nothing, ASCII, a
\* two-byte character, bytes that are no UTF-8, half a character, twelve bytes.
NameStems ==
  {<<>>, NameA, <<65, 66>>, EAcute, BadName, <<Head(EAcute)>>, NameA \o BadName,
   Rep(65, NAME_LEN - 1)}

\* The fields: a stem, a zero byte, and zero, ASCII or non-UTF-8 bytes up to
\* the end; and fields without a zero byte.
NameFields ==
  {st \o <<0>> \o Rep(f, NAME_LEN - 1 - Len(st)) : st \in NameStems, f \in {0, 65, 255}}
    \cup {Rep(67, NAME_LEN), Rep(65, NAME_LEN - 1) \o BadName,
          BadName \o Rep(65, NAME_LEN - 1)}

InitName ==
  /\ archive = <<>>
  /\ origin = "input"
  /\ writer = FALSE
  /\ appended = <<>>
  /\ reader = FALSE
  /\ pos = 0
  /\ cursor = "none"
  /\ cur_file_len = <<>>
  /\ hit_error = FALSE
  /\ gen = 0
  /\ yielded = <<>>
  /\ last = Outcome("init", "ok", "")
  /\ pc = "idle"
  /\ overwrite = FALSE
  /\ info = NoInfo
  /\ result = "none"
  /\ disk = [n \in {} |-> <<>>]
  /\ hist = <<>>
  /\ files = <<>>
  /\ \E field \in NameFields, n \in {0, 1, MaxData} :
       io = [NoIo EXCEPT !.src = field \o <<n, 0, 0, 0>>]

\* HogRecord::try_from(&raw_hdr)
ApplyTryFrom ==
  /\ io.op = "none"
  /\ \E r \in {try_from(io.src)} :
       io' = [io EXCEPT !.op = "try_from", !.res = IF r.ok THEN "ok" ELSE "err",
                        !.err = r.err,
                        !.rec = [filename |-> r.filename, length |-> r.length]]
  /\ UNCHANGED <<libVars, drvVars, files>>

NextName == ApplyTryFrom

SpecName == InitName /\ [][NextName]_vars

(***************************************************************************)
(* SpecCreate: hog_create over the source paths of a command line.         *)
(***************************************************************************)
\* The sources a command line may name: those of SrcFiles and one of 2^32 bytes.
CreateSrcs == SrcFiles \cup {LargeFile(<<NameA>>, <<0, 0, 0, 0, 1, 0, 0, 0>>)}

RECURSIVE SrcLists(_)
SrcLists(k) ==
  IF k = 0 THEN {<<>>}
  ELSE LET shorter == SrcLists(k - 1) IN
       shorter \cup {Append(l, src) : l \in shorter, src \in CreateSrcs}

InitCreate ==
  /\ archive = <<>>
  /\ origin = "input"
  /\ writer = FALSE
  /\ appended = <<>>
  /\ reader = FALSE
  /\ pos = 0
  /\ cursor = "none"
  /\ cur_file_len = <<>>
  /\ hit_error = FALSE
  /\ gen = 0
  /\ yielded = <<>>
  /\ last = Outcome("init", "ok", "")
  /\ pc = "idle"
  /\ overwrite = FALSE
  /\ info = NoInfo
  /\ result = "none"
  /\ disk = [n \in {} |-> <<>>]
  /\ hist = <<>>
  /\ files \in SrcLists(MaxFiles)
  /\ io = NoIo

\* HogFileWriter::new(out_path): the file is made and the signature written,
\* or the process exits.
CreateStart ==
  /\ pc = "idle" /\ ~writer
  /\ \E env_ok \in BOOLEAN :
       IF env_ok
       THEN /\ archive' = create
            /\ origin' = "created"
            /\ writer' = TRUE
            /\ pc' = "create"
            /\ result' = "none"
            /\ last' = Outcome("create", "ok", "")
       ELSE /\ pc' = "done"
            /\ result' = "OpenHogFailure"
            /\ last' = Outcome("create", "err", "OpenHogFailure")
            /\ UNCHANGED <<archive, origin, writer>>
  /\ UNCHANGED <<appended, reader, pos, cursor, cur_file_len, hit_error, gen, yielded>>
  /\ UNCHANGED <<overwrite, info, disk, hist, auxVars>>

\* One turn of hog_create's loop: append_file(file), and a line printed
\* whichever way it went.
CreateStep ==
  /\ pc = "create" /\ Len(hist) < Len(files)
  /\ \E src \in {files[Len(hist) + 1]} :
     \E r \in {append_file(archive, src)} :
       /\ archive' = r.archive
       /\ appended' = IF r.ok THEN Append(appended, src) ELSE appended
       /\ hist' = Append(hist, [src |-> src, ok |-> r.ok, err |-> r.err, ret |-> r.ret])
       /\ last' = [Outcome("append_file", IF r.ok THEN "ok" ELSE "err", r.err)
                     EXCEPT !.ret = r.ret, !.before = archive]
  /\ UNCHANGED <<origin, writer, reader, pos, cursor, cur_file_len, hit_error, gen, yielded>>
  /\ UNCHANGED <<pc, overwrite, info, result, disk, auxVars>>

\* The loop is over: hog_file is dropped.
CreateEnd ==
  /\ pc = "create" /\ Len(hist) = Len(files)
  /\ pc' = "done"
  /\ result' = "Ok"
  /\ writer' = FALSE
  /\ last' = Outcome("drop", "ok", "")
  /\ UNCHANGED <<archive, origin, appended, reader, pos, cursor, cur_file_len,
                 hit_error, gen, yielded>>
  /\ UNCHANGED <<overwrite, info, disk, hist, auxVars>>

NextCreate ==
  \/ CreateStart
  \/ CreateStep
  \/ CreateEnd

SpecCreate == InitCreate /\ [][NextCreate]_vars

(***************************************************************************)
(* SpecRace: appends of sources that another process writes to or cuts     *)
(* while append_file runs: what metadata() reports need not be what the    *)
(* copy finds.                                                             *)
(***************************************************************************)
\* A source of m bytes by the end of the copy, n bytes long when it was asked.
RaceFiles ==
  {[path |-> <<NameA>>, exists |-> TRUE, len |-> U64(n), size |-> m, seed |-> 16 * m] :
     n \in 0..MaxData, m \in 0..MaxData}

InitRace ==
  /\ archive = create
  /\ origin = "created"
  /\ writer = TRUE
  /\ appended = <<>>
  /\ reader = FALSE
  /\ pos = 0
  /\ cursor = "none"
  /\ cur_file_len = <<>>
  /\ hit_error = FALSE
  /\ gen = 0
  /\ yielded = <<>>
  /\ last = Outcome("create", "ok", "")
  /\ InitDrv

\* append_file(path) on a source that may change under it
RaceAppendFile ==
  /\ writer /\ Len(appended) < MaxAppends
  /\ \E src \in RaceFiles :
     \E r \in {append_file(archive, src)} :
       /\ archive' = r.archive
       /\ appended' = IF r.ok THEN Append(appended, src) ELSE appended
       /\ last' = [Outcome("append_file", IF r.ok THEN "ok" ELSE "err", r.err)
                     EXCEPT !.ret = r.ret, !.src = src, !.before = archive]
  /\ UNCHANGED <<origin, writer, reader, pos, cursor, cur_file_len, hit_error, gen, yielded>>
  /\ UNCHANGED <<drvVars, auxVars>>

NextRace == RaceAppendFile

SpecRace == InitRace /\ [][NextRace]_vars

(***************************************************************************)
(* What the claims speak of.                                               *)
(***************************************************************************)
\* The records of an archive, read header after header from offset p, each
\* payload stepped over, up to the first header that does not decode.
RECURSIVE Walk(_, _)
Walk(a, p) ==
  LET h == read_record_header(a, p, <<>>) IN
  IF h.res # "some" THEN <<>>
  ELSE <<[filename |-> h.rec.filename, length |-> h.rec.length, at |-> p]>>
         \o Walk(a, p + HDR_LEN + h.rec.length)

\* Every declared payload is fully present.
PayloadsPresent(a) ==
  \A i \in DOMAIN Walk(a, SIG_LEN) :
    LET r == Walk(a, SIG_LEN)[i] IN r.at + HDR_LEN + r.length <= Len(a)

FinalComponent(src) == src.path[Len(src.path)]

\* The current cursor has yielded no error before its latest answer.
NoEarlierError == \A i \in 1..(Len(yielded) - 1) : yielded[i].kind = "rec"

\* The caller has copied every record the cursor yielded before the latest one.
CopiedEach == \A i \in 1..(Len(yielded) - 1) : yielded[i].copied # "no"

\* The (filename, length, at) of the records the cursor yielded.
YieldedRecs ==
  LET n == IF yielded # <<>> /\ yielded[Len(yielded)].kind = "err"
           THEN Len(yielded) - 1 ELSE Len(yielded) IN
  [i \in 1..n |-> [filename |-> yielded[i].filename, length |-> yielded[i].length,
                   at |-> yielded[i].at]]

TraversalOver == cursor = "live" /\ last.op = "next" /\ last.res \in {"none", "err"}

C3_ErrorIsFinal == NoEarlierError

\* C4: where every declared payload is present, whatever was copied or skipped,
\* the k-th header is read at 3 + the sum of (17 + length) over the earlier
\* records, the records yielded are those of the archive, and a next() after a
\* successful copy_cur_file skips nothing.
C4_HeaderPositions ==
  (cursor = "live" /\ PayloadsPresent(archive) /\ NoEarlierError) =>
    /\ \A i \in DOMAIN yielded :
         /\ yielded[i].at = SIG_LEN + SumLen(SubSeq(YieldedRecs, 1, i - 1))
         /\ yielded[i].kind = "rec" => YieldedRecs[i] = Walk(archive, SIG_LEN)[i]
         /\ yielded[i].copied \in {"no", "ok"}
         /\ yielded[i].skipped = (i > 1 /\ yielded[i - 1].copied = "no")
    /\ (last.op = "next" /\ last.res = "none" /\ Len(YieldedRecs) = Len(yielded))
         => last.at = SIG_LEN + SumLen(YieldedRecs)

C4_Witness ==
  /\ cursor = "live" /\ PayloadsPresent(archive) /\ Len(yielded) = 2
  /\ yielded[1].copied = "ok" /\ yielded[1].length > 0 /\ ~yielded[2].skipped
  /\ yielded[2].kind = "rec" /\ yielded[2].at = SIG_LEN + HDR_LEN + yielded[1].length

\* C5: records() leaves the stream at offset 3 with a cursor that has nothing
\* pending and is not faulted, so every full traversal of a reader, the first
\* and any later one, yields the records of the archive.
C5_RecordsRestarts ==
  /\ last.op = "records" => (pos = SIG_LEN /\ cur_file_len = <<>> /\ ~hit_error)
  /\ (TraversalOver /\ NoEarlierError) => YieldedRecs = Walk(archive, SIG_LEN)

C5_Witness ==
  /\ gen = 2 /\ TraversalOver /\ last.res = "none" /\ Len(yielded) = 2
  /\ yielded[1].copied = "no" /\ yielded[2].copied = "ok"

C7_TruncatedHeader ==
  (cursor = "live" /\ last.op = "next"
     /\ Len(archive) - last.at >= 1 /\ Len(archive) - last.at <= 16) =>
    /\ last.res = "err" /\ last.err = "UnexpectedEof"
    /\ NoEarlierError => YieldedRecs = Walk(archive, SIG_LEN)

C7_Witness ==
  /\ cursor = "live" /\ last.op = "next" /\ last.err = "UnexpectedEof"
  /\ Len(yielded) = 2 /\ yielded[1].kind = "rec"
  /\ Len(archive) = yielded[2].at + 16

\* The layout create and the accepted appends give an archive: the signature,
\* then per source 17 header bytes and the content.
RECURSIVE PayloadsAt(_, _, _)
PayloadsAt(a, p, srcs) ==
  IF srcs = <<>> THEN Len(a) = p
  ELSE LET src == Head(srcs) IN
       /\ Len(a) >= p + HDR_LEN + src.size
       /\ SubSeq(a, p + HDR_LEN + 1, p + HDR_LEN + src.size) = Content(src)
       /\ PayloadsAt(a, p + HDR_LEN + src.size, Tail(srcs))

RECURSIVE SumSizes(_)
SumSizes(srcs) == IF srcs = <<>> THEN 0 ELSE 17 + Head(srcs).size + SumSizes(Tail(srcs))

C2_ListingEqualsExtraction ==
  \A i, j \in DOMAIN hist :
    (hist[i].kind = "info" /\ hist[j].kind = "dump" /\ hist[j].overwrite
       /\ hist[j].result # "OpenOutputFailure") =>
      /\ hist[i].result = hist[j].result
      /\ hist[i].result = "Ok" =>
           /\ hist[i].info.num_files = hist[j].info.files_processed
           /\ hist[i].info.num_bytes = hist[j].info.bytes_extracted

\* The record this turn of hog_dump's loop is about to be given.
Upcoming == next(archive, pos, cur_file_len, hit_error, TRUE, <<>>)

\* C8, one record: in an extraction without overwrite, a record whose
\* destination exists is counted as skipped, and neither the directory nor the
\* bytes-written and files-extracted totals change.
C8_SkipStep ==
  (pc = "dump" /\ ~overwrite /\ Upcoming.res = "some"
     /\ Upcoming.rec.filename \in DOMAIN disk) =>
    /\ pc' = "dump"
    /\ info'.files_processed = info.files_processed + 1
    /\ info'.files_skipped = info.files_skipped + 1
    /\ info'.files_extracted = info.files_extracted
    /\ info'.bytes_extracted = info.bytes_extracted
    /\ disk' = disk

\* C8, two runs: after an extraction without overwrite that returned its
\* summary, a second one into the same directory skips every record, extracts
\* none, writes no byte and leaves the directory as the first run left it.
C8_SecondRun ==
  \A i \in DOMAIN hist :
    (hist[i].kind = "dump" /\ ~hist[i].overwrite /\ hist[i].result = "Ok") =>
      /\ (pc = "dump" /\ ~overwrite /\ Len(hist) = i) =>
           /\ info.files_extracted = 0 /\ info.bytes_extracted = 0
           /\ info.files_skipped = info.files_processed
           /\ disk = hist[i].disk
      /\ (i + 1 \in DOMAIN hist /\ hist[i + 1].kind = "dump" /\ ~hist[i + 1].overwrite) =>
           /\ hist[i + 1].result = "Ok"
           /\ hist[i + 1].info.files_processed = hist[i].info.files_processed
           /\ hist[i + 1].info.files_skipped = hist[i].info.files_processed
           /\ hist[i + 1].info.files_extracted = 0
           /\ hist[i + 1].info.bytes_extracted = 0
           /\ hist[i + 1].disk = hist[i].disk

\* C8: no-overwrite extraction skips a record whose destination exists, leaving
\* the file and the byte total alone; so a second extraction of the same
\* archive into the same directory reports every record skipped, none
\* extracted and zero bytes written.
C8_NoOverwrite == [][C8_SkipStep]_vars /\ []C8_SecondRun

C8_Witness ==
  /\ Len(hist) = 2
  /\ hist[1].kind = "dump" /\ ~hist[1].overwrite /\ hist[1].result = "Ok"
  /\ hist[1].info.files_extracted = 2 /\ hist[1].info.bytes_extracted > 0
  /\ hist[2].kind = "dump" /\ ~hist[2].overwrite /\ hist[2].info.files_skipped = 2

\* The archive reads cleanly to its end: every header decodes and every
\* payload is there.
CleanArchive(a) ==
  /\ open(a).ok
  /\ PayloadsPresent(a)
  /\ read_record_header(a, SIG_LEN + SumLen(Walk(a, SIG_LEN)), <<>>).res = "none"

\* C9 as claimed: in an overwrite extraction a destination that cannot be
\* created costs that record only; the records after it are still processed,
\* so the run sees every record of a clean archive.
C9_ContinuesAsClaimed ==
  \A i \in DOMAIN hist :
    (hist[i].kind = "dump" /\ hist[i].overwrite /\ CleanArchive(archive)) =>
      hist[i].info.files_processed = Len(Walk(archive, SIG_LEN))

\* C9, amended: in an overwrite extraction a destination that cannot be
\* created ends the extraction of that archive: hog_dump returns
\* OpenOutputFailure at once, the failing record is the last one seen and no
\* later record is extracted.
C9_CreateFailureReturns ==
  (last.op = "dump" /\ last.res = "err" /\ last.err = "OpenOutputFailure") =>
    /\ pc = "idle"
    /\ hist # <<>>
    /\ LET run == hist[Len(hist)] IN
       /\ run.result = "OpenOutputFailure"
       /\ run.info.files_processed = run.info.files_extracted + run.info.files_skipped + 1
       /\ run.info.files_processed <= Len(Walk(archive, SIG_LEN))
       /\ Walk(archive, SIG_LEN)[run.info.files_processed].filename = last.rec.filename
       /\ info = run.info /\ disk = run.disk

C9_Witness ==
  /\ last.op = "dump" /\ last.err = "OpenOutputFailure" /\ hist # <<>>
  /\ hist[Len(hist)].overwrite /\ CleanArchive(archive)
  /\ hist[Len(hist)].info.files_processed = 1
  /\ Len(Walk(archive, SIG_LEN)) = 2
  /\ last.rec.filename # <<>>

\* C11: open succeeds exactly when the file has at least 3 bytes and they are
\* 'D','H','F'; a shorter file fails with SignatureReadFailure, a file of 3 or
\* more bytes with another prefix fails with InvalidSignature; and every
\* archive create has produced, whatever was appended, is accepted.
C11_Signature ==
  last.op = "open" =>
    /\ last.res = "ok" <=> (Len(archive) >= 3 /\ SubSeq(archive, 1, 3) = <<68, 72, 70>>)
    /\ last.res = "ok" <=> reader
    /\ Len(archive) < 3 => (last.res = "err" /\ last.err = "SignatureReadFailure")
    /\ (Len(archive) >= 3 /\ SubSeq(archive, 1, 3) # <<68, 72, 70>>)
         => (last.res = "err" /\ last.err = "InvalidSignature")
    /\ origin = "created" => last.res = "ok"

C11_Witness ==
  /\ last.op = "open" /\ last.res = "ok" /\ reader
  /\ origin = "created" /\ Len(appended) = 2

\* C12, the call: copy_cur_file on a cursor with nothing pending panics, it
\* returns no error value, and the stream position and everything written so
\* far stay as they were.
C12_PanicStep ==
  (cursor = "live" /\ cur_file_len = <<>> /\ last'.op = "copy_cur_file") =>
    /\ last'.res = "panic" /\ last'.err = ""
    /\ cursor' = "panicked"
    /\ pos' = pos /\ last'.ret = 0
    /\ yielded' = yielded

\* C12, when: nothing is pending on a new cursor, after any copy_cur_file and
\* after a next() that yielded the end of the sequence or an error.
C12_NothingPending ==
  (cursor = "live" /\ (\/ last.op \in {"records", "copy_cur_file"}
                       \/ last.op = "next" /\ last.res # "some"))
    => cur_file_len = <<>>

\* C12: copy_cur_file without a freshly yielded record (before the first
\* next(), a second time for one record, after the end or an error) panics
\* instead of returning an error, and reads and writes nothing.
C12_CopyWithoutPending == [][C12_PanicStep]_vars /\ []C12_NothingPending

C12_Witness ==
  /\ cursor = "panicked" /\ last.op = "copy_cur_file" /\ last.res = "panic"
  /\ Len(yielded) = 1 /\ yielded[1].copied = "ok" /\ yielded[1].length > 0
  /\ pos = SIG_LEN + HDR_LEN + yielded[1].length

\* The bytes a stream holds after the signature.
Held == Drop(archive, SIG_LEN)

ReadsFail(sched) == \E i \in DOMAIN sched : sched[i] < 0

\* C13: copy_n from a source holding k bytes returns Ok(min(n, k)), writes the
\* first min(n, k) bytes in order and consumes as many; it never consumes
\* more than n; with n = 0 it writes and consumes nothing; running out of
\* source before n bytes is no error.
C13_CopyN ==
  io.op = "copy_n" =>
    LET k == Len(Held)
        m == IF io.n < k THEN io.n ELSE k IN
    /\ ~ReadsFail(io.sched) =>
         /\ io.res = "ok" /\ io.ret = m
         /\ io.out = SubSeq(Held, 1, m)
         /\ io.pos = SIG_LEN + m
    /\ io.pos - SIG_LEN <= io.n /\ Len(io.out) <= io.n
    /\ io.n = 0 => (io.res = "ok" /\ io.ret = 0 /\ io.out = <<>> /\ io.pos = SIG_LEN)

C13_Witness ==
  /\ io.op = "copy_n" /\ io.sched = <<1, 0>>
  /\ Len(Held) = 2 /\ io.n = 3 /\ io.res = "ok" /\ io.ret = 2

\* C14: copy_exactly_n from a source holding at least n bytes returns Ok(n)
\* with the first n bytes written; from a source holding k < n bytes it
\* returns the error UnexpectedEof, the k bytes being written by then.
C14_CopyExactlyN ==
  (io.op = "copy_exactly_n" /\ ~ReadsFail(io.sched)) =>
    LET k == Len(Held) IN
    IF k >= io.n
    THEN /\ io.res = "ok" /\ io.ret = io.n
         /\ io.out = SubSeq(Held, 1, io.n)
         /\ io.pos = SIG_LEN + io.n
    ELSE /\ io.res = "err" /\ io.err = "UnexpectedEof"
         /\ io.out = Held
         /\ io.pos = SIG_LEN + k

C14_Witness ==
  /\ io.op = "copy_exactly_n" /\ io.res = "err" /\ io.err = "UnexpectedEof"
  /\ Len(Held) = 2 /\ io.n = 3 /\ io.out = Held /\ io.sched = <<1>>

\* The schedule without its interruptions.
RECURSIVE NoInterrupts(_)
NoInterrupts(sched) ==
  IF sched = <<>> THEN <<>>
  ELSE IF Head(sched) = 0 THEN NoInterrupts(Tail(sched))
  ELSE <<Head(sched)>> \o NoInterrupts(Tail(sched))

\* C19: an interrupted read during next()'s header read or during a payload
\* copy is retried with the bytes obtained so far kept: the call gives what
\* it gives with the interruptions taken out, Interrupted never reaches the
\* caller, and another read error is returned by the read that meets it.
C19_InterruptedRetry ==
  LET plain == NoInterrupts(io.sched)
      first_fails == plain # <<>> /\ Head(plain) < 0 IN
  /\ io.err # "Interrupted"
  /\ io.op = "next" =>
       \E r \in {next(archive, SIG_LEN, <<>>, FALSE, TRUE, plain)} :
         /\ io.res = r.res /\ io.err = r.err /\ io.rec = r.rec /\ io.pos = r.pos
         /\ first_fails =>
              (io.res = "err" /\ io.err = "ReadHeaderError" /\ io.pos = SIG_LEN)
  /\ io.op = "copy_cur_file" =>
       \E r \in {copy_cur_file(archive, SIG_LEN + HDR_LEN, <<io.rec.length>>, plain)} :
         /\ (io.res = "ok") = r.ok /\ io.err = r.err /\ io.out = r.out /\ io.pos = r.pos
         /\ (first_fails /\ io.rec.length > 0) =>
              (io.res = "err" /\ io.err = "ExtractFailure" /\ io.out = <<>>)
  /\ io.op = "copy_n" =>
       \E r \in {copy_n(archive, SIG_LEN, io.n, plain)} :
         /\ (io.res = "ok") = r.ok /\ io.err = r.err /\ io.out = r.out /\ io.pos = r.pos
         /\ (first_fails /\ io.n > 0) => (io.res = "err" /\ io.out = <<>>)
  /\ io.op = "copy_exactly_n" =>
       \E r \in {copy_exactly_n(archive, SIG_LEN, io.n, plain)} :
         /\ (io.res = "ok") = r.ok /\ io.err = r.err /\ io.out = r.out /\ io.pos = r.pos

C19_Witness ==
  /\ io.op = "copy_cur_file" /\ io.sched = <<1, 0>>
  /\ io.res = "ok" /\ Len(io.out) = MaxData

\* What listing the archive file a comes to: the error of open, or of the
\* first header that does not read, or Ok.
ListingOf(a) ==
  IF ~open(a).ok THEN open(a).err
  ELSE LET h == read_record_header(a, SIG_LEN + SumLen(Walk(a, SIG_LEN)), <<>>) IN
       IF h.res = "none" THEN "Ok" ELSE h.err

\* C15, order: a run begins on the next file of the list and its report is
\* added for that file, one report per file.
C15_InOrder ==
  /\ (pc = "idle" /\ pc' # "idle") => archive' = files[Len(hist) + 1]
  /\ hist' # hist =>
       /\ Len(hist') = Len(hist) + 1
       /\ SubSeq(hist', 1, Len(hist)) = hist
       /\ archive' = files[Len(hist')]

\* C15, reports: the i-th report is what the i-th file alone comes to,
\* whatever the files before it came to: an error names that file's flaw
\* and carries no summary, a summary counts that file's records.
C15_Reports ==
  /\ Len(hist) <= Len(files)
  /\ \A i \in DOMAIN hist :
       LET a == files[i]
           run == hist[i] IN
       /\ run.kind = hist[1].kind /\ run.overwrite = overwrite
       /\ run.kind = "info" =>
            /\ run.result = ListingOf(a)
            /\ run.result = "Ok" =>
                 (run.info.num_files = Len(Walk(a, SIG_LEN))
                    /\ run.info.num_bytes = SumLen(Walk(a, SIG_LEN))
                                              - HDR_LEN * Len(Walk(a, SIG_LEN)))
       /\ run.kind = "dump" =>
            /\ run.result \in {ListingOf(a), "OpenOutputFailure", "ExtractFailure"}
            /\ run.result = "ExtractFailure" => ~PayloadsPresent(a)
            /\ run.result = "Ok" =>
                 (ListingOf(a) = "Ok"
                    /\ run.info.files_processed = Len(Walk(a, SIG_LEN)))

\* C15, to the end: every file of the list gets its report.
C15_AllProcessed == <>(pc = "idle" /\ Len(hist) = Len(files))

\* C15: the extract and list drivers go through every archive of the list
\* once and in order; a fatal error on one is reported for it, without a
\* summary, and the archives after it are processed all the same.
C15_BatchIsolation == [][C15_InOrder]_vars /\ []C15_Reports /\ C15_AllProcessed

C15_Witness ==
  /\ Len(files) = 2 /\ Len(hist) = 2 /\ pc = "idle"
  /\ hist[1].kind = "dump" /\ hist[1].result = "InvalidSignature"
  /\ hist[2].result = "Ok" /\ hist[2].info.files_extracted = 2

\* C16: extraction creates bare file names only: no name on disk has a
\* directory separator in it, so every file made is a direct child of the
\* working directory.
C16_FlatExtraction ==
  \A name \in DOMAIN disk : \A i \in DOMAIN name : name[i] # 47

Exceeds32(len) == \E i \in (LEN_LEN + 1)..8 : len[i] # 0

\* C18: append refuses a source longer than 2^32 - 1 bytes with FileTooLarge
\* and builds no header for it; a source of 2^32 - 1 bytes or fewer is
\* accepted, and the length in its header is the source's length, bit for bit.
C18_LengthRange ==
  io.op = "append_file" =>
    IF Exceeds32(io.src.len)
    THEN io.res = "err" /\ io.err = "FileTooLarge" /\ io.out = <<>>
    ELSE /\ io.res = "ok"
         /\ Len(io.out) = HDR_LEN
         /\ SubSeq(io.out, NAME_LEN + 1, HDR_LEN) \o <<0, 0, 0, 0>> = io.src.len

C18_Witness ==
  /\ io.op = "append_file" /\ io.res = "ok"
  /\ io.src.len = <<255, 255, 255, 255, 0, 0, 0, 0>>
  /\ SubSeq(io.out, NAME_LEN + 1, HDR_LEN) = <<255, 255, 255, 255>>

\* C20: in a no-overwrite extraction, whichever destinations exist already,
\* the record a turn of the loop is given is the next one of the archive in
\* order; it is skipped only if its destination exists, leaving the disk as
\* it was and the cursor on its payload, and it is extracted only if its
\* destination did not exist, into a new file holding exactly its own
\* payload bytes, every other file left alone.
C20_Turn ==
  (pc = "dump" /\ ~overwrite /\ last'.op = "dump"
     /\ last'.res \in {"skipped", "extracted"}) =>
    LET w == Walk(archive, SIG_LEN)
        k == info.files_processed + 1
        name == last'.rec.filename IN
    /\ k <= Len(w)
    /\ name = w[k].filename /\ last'.rec.length = w[k].length
    /\ info'.files_processed = k
    /\ last'.res = "skipped" =>
         /\ name \in DOMAIN disk /\ disk' = disk
         /\ pos' = w[k].at + HDR_LEN /\ cur_file_len' = <<w[k].length>>
    /\ last'.res = "extracted" =>
         /\ name \notin DOMAIN disk
         /\ DOMAIN disk' = DOMAIN disk \cup {name}
         /\ \A other \in DOMAIN disk : disk'[other] = disk[other]
         /\ disk'[name] = SubSeq(archive, w[k].at + HDR_LEN + 1,
                                 w[k].at + HDR_LEN + w[k].length)
         /\ pos' = w[k].at + HDR_LEN + w[k].length /\ cur_file_len' = <<>>

C20_SkipKeepsAlignment == [][C20_Turn]_vars

C20_Witness ==
  /\ pc = "dump" /\ ~overwrite
  /\ info.files_processed = 2 /\ info.files_skipped = 1 /\ info.files_extracted = 1
  /\ last.op = "dump" /\ last.res = "extracted"
  /\ Len(disk[last.rec.filename]) = MaxData

\* C21: the pending payload length is set to L exactly when the latest call
\* on the cursor was a next() that yielded a record of length L; it is unset
\* on a new cursor, after a copy whether it succeeded or failed, and after a
\* next() that yielded the end or an error.
C21_Pending ==
  cursor = "live" =>
    IF last.op = "next" /\ last.res = "some"
    THEN cur_file_len = <<last.rec.length>>
    ELSE /\ last.op \in {"records", "copy_cur_file", "next"}
         /\ cur_file_len = <<>>

C21_Witness ==
  /\ cursor = "live" /\ cur_file_len = <<>>
  /\ last.op = "copy_cur_file" /\ last.res = "err" /\ last.err = "ExtractFailure"
  /\ io.bad = SIG_LEN + HDR_LEN + 1

\* C22, one step: a failed skip is yielded as SeekFailure and sets
\* hit_error, and nothing else sets it; while the cursor lives a set
\* hit_error stays set, and a next() on it yields nothing, wherever the
\* medium fails and whether a seek would fail, with the position and the
\* pending length as they were.
C22_Step ==
  /\ (last'.op = "next" /\ last'.err = "SeekFailure") =>
       (~hit_error /\ hit_error' /\ last'.res = "err")
  /\ (~hit_error /\ hit_error') => (last'.op = "next" /\ last'.err = "SeekFailure")
  /\ (hit_error /\ gen' = gen) => hit_error'
  /\ (hit_error /\ last'.op = "next") =>
       (last'.res = "none" /\ last'.err = ""
          /\ pos' = pos /\ cur_file_len' = cur_file_len)

\* C22: the faulted flag is absorbing for the lifetime of the cursor.
C22_Absorbing == [][C22_Step]_vars

C22_Witness ==
  /\ cursor = "live" /\ hit_error
  /\ last.op = "next" /\ last.res = "none"
  /\ io.bad >= 0 /\ pos >= io.bad

\* C28: a caller that goes on calling next() comes to a call that yields
\* nothing, also when calls before it yielded errors.
C28_Terminates == <>(last.op = "next" /\ last.res = "none")

\* What a summary leaves open: the records seen that were neither extracted
\* nor skipped.
Unsettled(inf) == inf.files_processed - (inf.files_extracted + inf.files_skipped)

\* C23, the counts: while an archive is extracted, and in what a run ends
\* with, the records seen are the extracted and the skipped ones and at most
\* one more; none more when the run ended without error.
C23_Counts ==
  /\ pc = "dump" => Unsettled(info) \in {0, 1}
  /\ \A i \in DOMAIN hist :
       hist[i].kind = "dump" =>
         /\ Unsettled(hist[i].info) \in {0, 1}
         /\ hist[i].result = "Ok" => Unsettled(hist[i].info) = 0

\* C23, the bytes: a run starts from zero; a turn that extracts a record adds
\* that record's length to the bytes written and one to the records
\* extracted, and no other turn changes either.
C23_Turn ==
  /\ (pc = "idle" /\ pc' = "dump") => info' = NoInfo
  /\ pc = "dump" =>
       IF last'.op = "dump" /\ last'.res = "extracted"
       THEN /\ info'.bytes_extracted = info.bytes_extracted + last'.rec.length
            /\ info'.files_extracted = info.files_extracted + 1
            /\ Len(disk'[last'.rec.filename]) = last'.rec.length
       ELSE /\ info'.bytes_extracted = info.bytes_extracted
            /\ info'.files_extracted = info.files_extracted

\* C23: the extraction summary is consistent throughout.
C23_Summary == []C23_Counts /\ [][C23_Turn]_vars

C23_Witness ==
  /\ pc = "idle" /\ hist # <<>>
  /\ hist[Len(hist)].kind = "dump" /\ hist[Len(hist)].result = "Ok"
  /\ info.files_processed = 2 /\ info.files_extracted = 1 /\ info.files_skipped = 1
  /\ info.bytes_extracted = MaxData

\* The place of the first zero byte of a name field, one past its end when
\* it has none.
FirstNul(field) ==
  IF \E i \in DOMAIN field : field[i] = 0
  THEN CHOOSE i \in DOMAIN field : field[i] = 0 /\ \A j \in 1..(i - 1) : field[j] # 0
  ELSE Len(field) + 1

\* C24: the decoded filename is the bytes of the 13-byte field before its
\* first zero byte, all 13 when none is zero; decoding fails, with
\* InvalidFilename, exactly when those bytes are not valid UTF-8; and a
\* header that differs only after the first zero byte decodes to the same.
C24_Decode ==
  io.op = "try_from" =>
    LET field == SubSeq(io.src, 1, NAME_LEN)
        k == FirstNul(field)
        kept == SubSeq(field, 1, k - 1) IN
    /\ (io.res = "err") = ~from_utf8_ok(kept)
    /\ io.res = "err" => io.err = "InvalidFilename"
    /\ io.res = "ok" => (io.rec.filename = kept /\ io.rec.length = io.src[NAME_LEN + 1])
    /\ \A other \in NameFields :
         Take(other, k) = Take(field, k) =>
           \E r \in {try_from(other \o SubSeq(io.src, NAME_LEN + 1, HDR_LEN))} :
             /\ r.ok = (io.res = "ok") /\ r.err = io.err
             /\ r.ok => (r.filename = io.rec.filename /\ r.length = io.rec.length)

C24_Witness ==
  /\ io.op = "try_from" /\ io.res = "ok"
  /\ io.rec.filename = NameA /\ io.rec.length = MaxData
  /\ io.src[Len(NameA) + 2] = 255

\* The sources of the turns that went well, in order.
RECURSIVE Accepted(_)
Accepted(h) ==
  IF h = <<>> THEN <<>>
  ELSE (IF Head(h).ok THEN <<Head(h).src>> ELSE <<>>) \o Accepted(Tail(h))

\* C25, one turn: an append that fails on its checks leaves the archive as
\* it was, to the byte.
C25_Turn ==
  (last'.op = "append_file" /\ last'.res = "err") =>
    /\ last'.err \in {"OpenInputFailure", "FileTooLarge", "BadHogFilename",
                      "HogFilenameTooLong"}
    /\ archive' = archive

\* C25, the archive: whatever turns failed, the archive is the signature and
\* the records of the accepted sources in order, and lists cleanly as them.
C25_WellFormed ==
  pc \in {"create", "done"} /\ origin = "created" =>
    LET good == Accepted(hist)
        w == Walk(archive, SIG_LEN) IN
    /\ Take(archive, SIG_LEN) = HOG_SIGNATURE
    /\ PayloadsAt(archive, SIG_LEN, good)
    /\ ListingOf(archive) = "Ok"
    /\ Len(w) = Len(good)
    /\ \A i \in DOMAIN w :
         /\ w[i].filename = to_string_lossy(FinalComponent(good[i]))
         /\ w[i].length = good[i].size

\* C25: validation precedes writing in append, and hog_create goes on.
C25_ValidationFirst == [][C25_Turn]_vars /\ []C25_WellFormed

C25_Witness ==
  /\ pc = "done" /\ result = "Ok" /\ Len(hist) = 2
  /\ ~hist[1].ok /\ hist[1].err = "HogFilenameTooLong"
  /\ hist[2].ok /\ hist[2].ret = MaxData
  /\ Len(archive) = SIG_LEN + HDR_LEN + MaxData

\* C26: when the file ends inside a declared payload, a traversal from the
\* first record that comes to the end has reported an error on the way, by a
\* next() or by a copy, whether that payload was copied or skipped.
C26_TruncationReported ==
  (cursor = "live" /\ last.op = "next" /\ last.res = "none"
     /\ ~PayloadsPresent(archive)) =>
    \E i \in DOMAIN yielded : yielded[i].kind = "err" \/ yielded[i].copied = "err"

\* C27: after a successful append the length stored in the record's header
\* is the number of payload bytes written after it, and is what append
\* returned, also when the source changed size while it was appended.
C27_LengthIsWritten ==
  (last.op = "append_file" /\ last.res = "ok") =>
    LET at == Len(last.before)
        stored == SubSeq(archive, at + NAME_LEN + 1, at + HDR_LEN) IN
    /\ stored = as_u32(U64(Len(archive) - at - HDR_LEN))
    /\ stored = as_u32(U64(last.ret))

====
